---- MODULE Spec2Model ----
(***************************************************************************)
(* Spotify liked songs -> slskd downloader (src/slskd_spotipy_dl.py).      *)
(*                                                                         *)
(* The module models                                                       *)
(*   - the text helpers of LocalMusicScanner and QualityMatcher (regular   *)
(*     expressions are written out as the string scans they perform),      *)
(*   - QualityMatcher.extract_metadata / score_file / find_best_match,     *)
(*   - LocalMusicScanner._scan_directories / track_exists,                 *)
(*   - SpotifySlskdDownloader.run / download_track and its two polling     *)
(*     loops, one action per step of the per-track state machine.          *)
(*                                                                         *)
(* Text is a TLA+ string; Len, \o, SubSeq, Head and Tail act on strings as *)
(* they do on sequences of characters.  Only ASCII text is modelled.       *)
(*                                                                         *)
(* Scores are floats in the program.  Every score is a multiple of 1/500   *)
(* (the proximity term is a multiple of 1/50, the weights of 1/10), so the *)
(* model holds 500 * score as an integer and compares against 500 * 40.    *)
(*                                                                         *)
(* Four specifications share the variables and the actions:                *)
(*   Spec       a whole run over a wanted list of up to MaxTracks tracks,  *)
(*   LiveSpec   such a run under one profile, its steps taken fairly,      *)
(*   MatchSpec  download_track from line 811 on, over the responses of up  *)
(*              to MaxPeers peers,                                         *)
(*   ScanSpec   the scanner built file by file over up to MaxFiles files,  *)
(*              then one track looked up in the index.                     *)
(***************************************************************************)
EXTENDS Integers, Sequences, FiniteSets, TLC

VARIABLES
    profile,         \* the QualityProfile member chosen at startup
    library,         \* the files under the music root when the scanner is built
    scan_pos,        \* how many files of library _scan_directories has handled
    scanned_tracks,  \* LocalMusicScanner.scanned_tracks
    tracks,          \* run's list of Track, from get_liked_tracks
    i,               \* run's loop index (1-based), 0 before the loop
    pc,              \* where run / download_track stands
    search,          \* download_track's search: None or Some(session)
    elapsed,         \* time.time() - start_time of the polling loop in progress
    search_results,  \* download_track's search_results
    best_match,      \* download_track's best_match: None or Some(match)
    result,          \* download_track's return value: None until it returns
    successful,      \* run's counters
    failed,
    skipped,
    enqueued,        \* history: the transfers.enqueue calls made for track i
    calls,           \* history: the slskd calls made for track i, by name
    seen,            \* history: the evidence of completion the monitoring of
                     \* track i has had: "record" once a matching Completed
                     \* transfer was listed, "file" when the pass that ended it
                     \* took a file found by the glob of the incomplete directory;
                     \* and "refused" when transfers.enqueue returned False
    raised,          \* history: the first track during which a collaborator
                     \* call raised, 0 while none has
    queued,          \* history: what searches.get_all returned for track i,
                     \* None before it has and once the responses are fetched
    duplicates       \* what find_potential_duplicates returned to run: a
                     \* function from keys to lists of keys, empty before

vars == <<profile, library, scan_pos, scanned_tracks, tracks, i, pc, search, elapsed,
          search_results, best_match, result, successful, failed, skipped,
          enqueued, calls, seen, raised, queued, duplicates>>

\* ------------------------------------------------------------------ text

\* the k-th character of s, "" outside the string
Ch(s, k) == IF k \in 1..Len(s) THEN SubSeq(s, k, k) ELSE ""

None == <<>>

Some(x) == <<x>>

Range(f) == { f[k] : k \in DOMAIN f }

Uppers == "ABCDEFGHIJKLMNOPQRSTUVWXYZ"

Lowers == "abcdefghijklmnopqrstuvwxyz"

Digits == "0123456789"

CharsOf(s) == { Ch(s, k) : k \in 1..Len(s) }

UpperChars == CharsOf(Uppers)

DigitChars == CharsOf(Digits)

\* \w of Python's re (ASCII part): letters, digits, underscore
WordChars == UpperChars \cup CharsOf(Lowers) \cup DigitChars \cup {"_"}

\* \s of Python's re (the characters used here)
SpaceChars == {" ", "\t", "\n"}

LowerMap == [c \in UpperChars |-> Ch(Lowers, CHOOSE k \in 1..Len(Uppers) : Ch(Uppers, k) = c)]

DigitValue == [c \in DigitChars |-> (CHOOSE k \in 1..Len(Digits) : Ch(Digits, k) = c) - 1]

IsWord(c) == c \in WordChars

IsSpace(c) == c \in SpaceChars

IsDigit(c) == c \in DigitChars

LowerChar(c) == IF c \in UpperChars THEN LowerMap[c] ELSE c

\* str.lower()
RECURSIVE lower(_)
lower(s) == IF s = "" THEN "" ELSE LowerChar(Head(s)) \o lower(Tail(s))

\* re.sub(r"[^\w\s]", "", s)
RECURSIVE SubNonWordSpace(_)
SubNonWordSpace(s) ==
    IF s = "" THEN ""
    ELSE (IF IsWord(Head(s)) \/ IsSpace(Head(s)) THEN Head(s) ELSE "")
         \o SubNonWordSpace(Tail(s))

\* str.lstrip() / str.rstrip() / str.strip()
RECURSIVE LStrip(_)
LStrip(s) == IF s # "" /\ IsSpace(Head(s)) THEN LStrip(Tail(s)) ELSE s

RECURSIVE RStrip(_)
RStrip(s) ==
    IF s # "" /\ IsSpace(Ch(s, Len(s))) THEN RStrip(SubSeq(s, 1, Len(s) - 1)) ELSE s

Strip(s) == RStrip(LStrip(s))

\* re.sub(r"\s+", " ", s): every run of whitespace becomes one space
RECURSIVE CollapseSpaces(_)
CollapseSpaces(s) ==
    IF s = "" THEN ""
    ELSE IF IsSpace(Head(s)) THEN " " \o CollapseSpaces(LStrip(s))
    ELSE Head(s) \o CollapseSpaces(Tail(s))

\* Python's  needle in hay  for strings
Contains(hay, needle) ==
    \E k \in 0..(Len(hay) - Len(needle)) : SubSeq(hay, k + 1, k + Len(needle)) = needle

HasPrefix(s, p) == Len(s) >= Len(p) /\ SubSeq(s, 1, Len(p)) = p

HasSuffix(s, p) == Len(s) >= Len(p) /\ SubSeq(s, Len(s) - Len(p) + 1, Len(s)) = p

\* s.split(c)[0]: the text before the first occurrence of the character c
FirstField(s, c) ==
    IF \E k \in 1..Len(s) : Ch(s, k) = c
    THEN SubSeq(s, 1, (CHOOSE k \in 1..Len(s) :
                          Ch(s, k) = c /\ \A j \in 1..(k - 1) : Ch(s, j) # c) - 1)
    ELSE s

\* the position of the ")" that ends a lazy ".*?\)" started at position from,
\* 0 when there is none ("." does not match a newline)
CloseParen(s, from) ==
    LET ok(j) == Ch(s, j) = ")" /\ \A m \in from..(j - 1) : Ch(s, m) # "\n"
    IN  IF \E j \in from..Len(s) : ok(j)
        THEN CHOOSE j \in from..Len(s) : ok(j) /\ \A m \in from..(j - 1) : ~ok(m)
        ELSE 0

\* the end of a match of  \(feat\..*?\)|\(ft\..*?\)  at the start of s, 0 if none
FeatMatchEnd(s) ==
    IF HasPrefix(s, "(feat.") THEN CloseParen(s, 7)
    ELSE IF HasPrefix(s, "(ft.") THEN CloseParen(s, 5)
    ELSE 0

\* re.sub(r"\(feat\..*?\)|\(ft\..*?\)", "", s)
RECURSIVE SubFeat(_)
SubFeat(s) ==
    IF s = "" THEN ""
    ELSE IF FeatMatchEnd(s) > 0 THEN SubFeat(SubSeq(s, FeatMatchEnd(s) + 1, Len(s)))
    ELSE Head(s) \o SubFeat(Tail(s))

\* re.sub(r"\s*\(feat\..*?\)|\s*\(ft\..*?\)", "", s): as SubFeat, and the
\* whitespace run right before a match is removed with it
RECURSIVE SubSpaceFeat(_)
SubSpaceFeat(s) ==
    IF s = "" THEN ""
    ELSE LET rest == LStrip(s)
             e    == FeatMatchEnd(rest)
         IN  IF e > 0 THEN SubSpaceFeat(SubSeq(rest, e + 1, Len(rest)))
             ELSE Head(s) \o SubSpaceFeat(Tail(s))

\* int(digits)
RECURSIVE StrToInt(_)
StrToInt(s) ==
    IF s = "" THEN 0
    ELSE 10 * StrToInt(SubSeq(s, 1, Len(s) - 1)) + DigitValue[Ch(s, Len(s))]

\* ------------------------------------------------- LocalMusicScanner text

\* LocalMusicScanner._normalize_string
_normalize_string(s) == Strip(CollapseSpaces(SubNonWordSpace(lower(s))))

\* LocalMusicScanner._remove_the_prefix: re.sub(r"^the\s+", "", s)
_remove_the_prefix(s) ==
    IF HasPrefix(s, "the") /\ Len(s) >= 4 /\ IsSpace(Ch(s, 4))
    THEN LStrip(SubSeq(s, 4, Len(s)))
    ELSE s

\* --------------------------------------------------------- QualityProfile

ProfileNames == {"LOSSLESS", "HIGH", "STANDARD", "ANY"}

\* QualityProfile.<name>.value; score_weight is held in tenths
QualityProfile(p) ==
    CASE p = "LOSSLESS" ->
           [name |-> "Lossless", formats |-> <<"flac", "ape", "alac", "wav">>,
            min_bitrate |-> 900, preferred_bitrate |-> 1411, score_weight |-> 10]
      [] p = "HIGH" ->
           [name |-> "High Quality", formats |-> <<"mp3", "flac", "ogg", "m4a">>,
            min_bitrate |-> 256, preferred_bitrate |-> 320, score_weight |-> 8]
      [] p = "STANDARD" ->
           [name |-> "Standard", formats |-> <<"mp3", "ogg", "m4a", "wma">>,
            min_bitrate |-> 192, preferred_bitrate |-> 256, score_weight |-> 6]
      [] p = "ANY" ->
           [name |-> "Any",
            formats |-> <<"mp3", "flac", "ogg", "m4a", "ape", "alac", "wav", "wma">>,
            min_bitrate |-> 128, preferred_bitrate |-> 320, score_weight |-> 4]

\* ---------------------------------------------------------- QualityMatcher

\* 500 * n: a score of n points at weight 1.0, in the model's unit
Pts(n) == 500 * n

\* the alternatives of the extension pattern, in the pattern's order
ExtFormats == <<"flac", "mp3", "ape", "alac", "wav", "ogg", "m4a", "wma">>

\* re.search(r"\.(flac|mp3|ape|alac|wav|ogg|m4a|wma)$", filename_lower); "" is None
file_format(fl) ==
    IF \E k \in DOMAIN ExtFormats : HasSuffix(fl, "." \o ExtFormats[k])
    THEN ExtFormats[CHOOSE k \in DOMAIN ExtFormats : HasSuffix(fl, "." \o ExtFormats[k])]
    ELSE ""

DigitsAt(s, p, n) == p + n - 1 <= Len(s) /\ \A j \in p..(p + n - 1) : IsDigit(Ch(s, j))

\* the first position at or after p that holds no whitespace
SkipSpaces(s, p) ==
    CHOOSE q \in p..(Len(s) + 1) :
        /\ \A j \in p..(q - 1) : IsSpace(Ch(s, j))
        /\ ~IsSpace(Ch(s, q))

\* \s*k?bps?  matches at position p
BpsAt(s, p) ==
    LET q == SkipSpaces(s, p)
        r == IF Ch(s, q) = "k" THEN q + 1 ELSE q
    IN  Ch(s, r) = "b" /\ Ch(s, r + 1) = "p"

\* (\d{3,4})\s*k?bps?  matches at position p with n digits in the group
BpsMatch(s, p, n) == DigitsAt(s, p, n) /\ BpsAt(s, p + n)

\* (\d{3,4})k  matches at position p with n digits in the group
KMatch(s, p, n) == DigitsAt(s, p, n) /\ Ch(s, p + n) = "k"

\* group 1 of the leftmost match of a pattern (four digits are tried before
\* three), None when the pattern matches nowhere
FirstGroup(s, pattern) ==
    LET M(p, n) == IF pattern = "bps" THEN BpsMatch(s, p, n) ELSE KMatch(s, p, n)
        at(p)   == M(p, 4) \/ M(p, 3)
    IN  IF \E p \in 1..Len(s) : at(p)
        THEN LET p == CHOOSE q \in 1..Len(s) : at(q) /\ \A j \in 1..(q - 1) : ~at(j)
                 n == IF M(p, 4) THEN 4 ELSE 3
             IN  Some(SubSeq(s, p, p + n - 1))
        ELSE None

\* lines 523-527: the bitrate token, None when there is none
bitrate_token(fl) ==
    LET m1 == FirstGroup(fl, "bps")
        m2 == IF m1 = None THEN FirstGroup(fl, "k") ELSE m1
    IN  IF m2 = None THEN None ELSE Some(StrToInt(m2[1]))

\* Python's truth value of  metadata["bitrate"]: None and 0 are false
Truthy(b) == b # None /\ b[1] # 0

LosslessWords == {"flac", "lossless", "ape", "alac", "wav"}

\* extract_metadata without lines 534-535: no bitrate is assumed
extract_metadata_NoDefault(filename) ==
    [format      |-> file_format(lower(filename)),
     bitrate     |-> bitrate_token(lower(filename)),
     is_lossless |-> \E word \in LosslessWords : Contains(lower(filename), word)]

\* QualityMatcher.extract_metadata
extract_metadata(filename) ==
    LET filename_lower == lower(filename)
        bitrate        == bitrate_token(filename_lower)
        is_lossless    == \E word \in LosslessWords : Contains(filename_lower, word)
    IN  [format      |-> file_format(filename_lower),
         bitrate     |-> IF is_lossless /\ ~Truthy(bitrate) THEN Some(1411) ELSE bitrate,
         is_lossless |-> is_lossless]

\* lines 547-554: the format stage; preferred formats are ["flac", "mp3"][:2]
PreferredFormats == SubSeq(<<"flac", "mp3">>, 1, 2)

\* line 548 letting a file through when no format was detected
FormatAllowed_UnknownPasses(metadata, prof) ==
    metadata.format = "" \/ metadata.format \in Range(prof.formats)

FormatAllowed(metadata, prof) == metadata.format \in Range(prof.formats)

FormatPoints(metadata, prof) ==
    IF FormatAllowed(metadata, prof)
    THEN 30 + (IF metadata.format \in Range(PreferredFormats) THEN 10 ELSE 0)
    ELSE 0

\* lines 557-566: the bitrate stage rejects
BitrateRejected(metadata, prof) ==
    Truthy(metadata.bitrate) /\ metadata.bitrate[1] < prof.min_bitrate

Abs(n) == IF n < 0 THEN -n ELSE n

Max(a, b) == IF a >= b THEN a ELSE b

\* lines 557-564: 50 * (25 + max(0, 15 - bitrate_diff / 50)), 0 when the
\* bitrate is None or 0
BitratePoints50(metadata, prof) ==
    IF Truthy(metadata.bitrate) /\ metadata.bitrate[1] >= prof.min_bitrate
    THEN 50 * 25 + Max(0, 50 * 15 - Abs(metadata.bitrate[1] - prof.preferred_bitrate))
    ELSE 0

\* lines 569-571: re.sub(r"[^\w\s]", "", text.lower())
Clean(text) == SubNonWordSpace(lower(text))

\* lines 570, 575-576: artist_clean is made from the whole of track.artist
ArtistPoints(filename, track) ==
    IF Contains(filename, Clean(track.artist)) THEN 10 ELSE 0

\* lines 573-578: title +15, artist +10, album +5, each when the cleaned text
\* is a substring of the lower-cased filename
TextPoints(filename, track) ==
      (IF Contains(filename, Clean(track.name)) THEN 15 ELSE 0)
    + ArtistPoints(filename, track)
    + (IF Contains(filename, Clean(track.album)) THEN 5 ELSE 0)

\* lines 581-585: expected_size = duration_ms / 1000 * (bitrate or 320) * 1000 / 8
\* and  expected_size * 0.5 < file_size < expected_size * 2, cleared of fractions
SizePoints(file_size, metadata, track) ==
    LET rate == IF Truthy(metadata.bitrate) THEN metadata.bitrate[1] ELSE 320
        e8   == track.duration_ms * rate
    IN  IF 16 * file_size > e8 /\ 4 * file_size < e8 THEN 5 ELSE 0

\* 50 * (the sum score holds at line 587 before it is weighted)
RawScore50(filename, file_size, metadata, track, prof) ==
    50 * (FormatPoints(metadata, prof) + TextPoints(filename, track)
          + SizePoints(file_size, metadata, track))
    + BitratePoints50(metadata, prof)

\* line 587 with the weight dividing instead of multiplying
Weighted_Inverse(raw50, prof) == (raw50 * 100) \div prof.score_weight

\* line 587: score * self.profile["score_weight"], as 500 * the float
Weighted(raw50, prof) == raw50 * prof.score_weight

\* lines 547-587, given the lower-cased filename and its metadata
ScoreWith(filename, file_size, metadata, track, prof) ==
    IF ~FormatAllowed(metadata, prof) THEN 0
    ELSE IF BitrateRejected(metadata, prof) THEN 0
    ELSE Weighted(RawScore50(filename, file_size, metadata, track, prof), prof)

\* lines 544-545: metadata = self.extract_metadata(filename)
ScoreLower(filename, file_size, track, prof) ==
    ScoreWith(filename, file_size, extract_metadata(filename), track, prof)

\* QualityMatcher.score_file, as 500 * the float it returns
score_file(file_data, track, prof) ==
    ScoreLower(lower(file_data.filename), file_data.size, track, prof)

\* lines 597-601: the (username, file) pairs in iteration order
RECURSIVE Candidates(_)
Candidates(responses) ==
    IF responses = <<>> THEN <<>>
    ELSE [k \in DOMAIN Head(responses).files |->
             [username |-> Head(responses).username, file |-> Head(responses).files[k]]]
         \o Candidates(Tail(responses))

\* -------------------------------------------------------- LocalMusicScanner

AUDIO_EXTENSIONS == {".mp3", ".flac", ".m4a", ".ogg", ".opus", ".ape", ".wma", ".alac", ".wav"}

\* the position of the first character of s that is in chars, 0 when none is
FirstPos(s, chars) ==
    IF \E k \in 1..Len(s) : Ch(s, k) \in chars
    THEN CHOOSE k \in 1..Len(s) :
             Ch(s, k) \in chars /\ \A j \in 1..(k - 1) : Ch(s, j) \notin chars
    ELSE 0

\* the ASCII member of the character class [-<en dash><em dash>]
DashChars == {"-"}

OpenChars == {"(", "["}

CloseChars == {")", "]"}

\* lines 318-330: which captured group is the artist
AssignGroups(filename, group1, group2) ==
    IF Len(group1) < Len(group2) \/ Contains(filename, " - ")
    THEN [artist |-> _normalize_string(group1), title |-> _normalize_string(group2)]
    ELSE [artist |-> _normalize_string(group2), title |-> _normalize_string(group1)]

\* LocalMusicScanner._parse_from_filename.  The two patterns are
\*   ^(.*?)\s*[-]\s*(.*?)$             split at the first dash
\*   ^(.*?)\s*[\(\[]\s*(.*?)\s*[\)\]]$ split at the first opening bracket, when
\*                                     the name ends with a closing one
_parse_from_filename(filename) ==
    LET d == FirstPos(filename, DashChars)
        o == FirstPos(filename, OpenChars)
    IN  IF d > 0
        THEN AssignGroups(filename, RStrip(SubSeq(filename, 1, d - 1)),
                          LStrip(SubSeq(filename, d + 1, Len(filename))))
        ELSE IF o > 0 /\ o < Len(filename) /\ Ch(filename, Len(filename)) \in CloseChars
        THEN AssignGroups(filename, RStrip(SubSeq(filename, 1, o - 1)),
                          Strip(SubSeq(filename, o + 1, Len(filename) - 1)))
        ELSE [artist |-> "unknown", title |-> _normalize_string(filename)]

\* LocalMusicScanner._extract_metadata_from_file.  A file on disk is
\* [stem, suffix, artist, title]; artist and title are what the tag sources
\* yield, "" when the file has no such tag or cannot be loaded
_extract_metadata_from_file(f) ==
    IF f.artist = "" \/ f.title = ""
    THEN _parse_from_filename(f.stem)
    ELSE [artist |-> _normalize_string(f.artist), title |-> _normalize_string(f.title)]

\* lines 416-435 with the "artist|title" key left out
KeysOfFile_FilenameOnly(f) ==
    IF lower(f.suffix) \in AUDIO_EXTENSIONS THEN {_normalize_string(f.stem)} ELSE {}

\* lines 416-435: the keys one file adds to scanned_tracks
KeysOfFile(f) ==
    IF lower(f.suffix) \in AUDIO_EXTENSIONS
    THEN LET metadata == _extract_metadata_from_file(f)
         IN  {metadata.artist \o "|" \o metadata.title, _normalize_string(f.stem)}
    ELSE {}

\* LocalMusicScanner._scan_directories, over the files of the music root
RECURSIVE ScanAll(_)
ScanAll(files) == IF files = <<>> THEN {} ELSE KeysOfFile(Head(files)) \cup ScanAll(Tail(files))

\* lines 442-446
primary_artist_of(artist_norm) == Strip(FirstField(FirstField(artist_norm, ","), "&"))

\* lines 464: the title without featured artists, computed from title_norm
base_title_of(title_norm) == Strip(SubFeat(title_norm))

\* lines 448-472: check_patterns
check_patterns(track) ==
    LET artist_norm    == _normalize_string(track.artist)
        title_norm     == _normalize_string(track.name)
        primary_artist == primary_artist_of(artist_norm)
        base_title     == base_title_of(title_norm)
    IN  <<artist_norm \o "|" \o title_norm,
          primary_artist \o "|" \o title_norm,
          artist_norm \o " " \o title_norm,
          primary_artist \o " " \o title_norm,
          title_norm \o " " \o artist_norm,
          _remove_the_prefix(artist_norm \o " " \o title_norm),
          _remove_the_prefix(primary_artist \o " " \o title_norm),
          title_norm>>
        \o (IF base_title # title_norm
            THEN <<artist_norm \o "|" \o base_title,
                   primary_artist \o "|" \o base_title,
                   artist_norm \o " " \o base_title>>
            ELSE <<>>)

\* lines 474-476: any non-empty pattern is in the index
AnyPatternIn(patterns, index) ==
    \E pattern \in Range(patterns) : pattern # "" /\ pattern \in index

\* the first position at which needle occurs in hay; needle occurs in hay
FirstIndex(hay, needle) ==
    CHOOSE p \in 1..(Len(hay) - Len(needle) + 1) :
        /\ SubSeq(hay, p, p + Len(needle) - 1) = needle
        /\ \A r \in 1..(p - 1) : SubSeq(hay, r, r + Len(needle) - 1) # needle

\* some block of n characters of a occurs in b
HasBlock(a, b, n) ==
    \E p \in 1..(Len(a) - n + 1) : Contains(b, SubSeq(a, p, p + n - 1))

\* the size of the longest block a and b share
LongestSize(a, b) ==
    IF \E n \in 1..Len(a) : HasBlock(a, b, n)
    THEN CHOOSE n \in 1..Len(a) : HasBlock(a, b, n) /\ ~HasBlock(a, b, n + 1)
    ELSE 0

\* where in a the first block of n characters that occurs in b starts
FirstBlock(a, b, n) ==
    CHOOSE p \in 1..(Len(a) - n + 1) :
        /\ Contains(b, SubSeq(a, p, p + n - 1))
        /\ \A r \in 1..(p - 1) : ~Contains(b, SubSeq(a, r, r + n - 1))

\* the block at position p of a, of n characters, and its first place in b
BlockAt(a, b, p, n) == [a |-> p, b |-> FirstIndex(b, SubSeq(a, p, p + n - 1)), size |-> n]

\* a longest block of n characters: the one earliest in a, then earliest in b
LongestOf(a, b, n) ==
    IF n = 0 THEN [a |-> 1, b |-> 1, size |-> 0] ELSE BlockAt(a, b, FirstBlock(a, b, n), n)

\* difflib.SequenceMatcher.find_longest_match over the whole of a and b, for
\* sequences short enough (under 200 items) that no item is treated as junk
find_longest_match(a, b) == LongestOf(a, b, LongestSize(a, b))

RECURSIVE MatchedChars(_, _)
\* get_matching_blocks: the longest block, then the parts left and right of it
MatchedAround(a, b, m) ==
    IF m.size = 0 THEN 0
    ELSE m.size
         + MatchedChars(SubSeq(a, 1, m.a - 1), SubSeq(b, 1, m.b - 1))
         + MatchedChars(SubSeq(a, m.a + m.size, Len(a)), SubSeq(b, m.b + m.size, Len(b)))

\* the number of characters in the matching blocks of a and b
MatchedChars(a, b) ==
    IF a = "" \/ b = "" THEN 0 ELSE MatchedAround(a, b, find_longest_match(a, b))

\* the threshold of _are_similar_tracks, 0.8, in tenths
ThresholdTenths == 8

\* SequenceMatcher(None, a, b).ratio() > threshold, where ratio() is
\* 2.0 * matches / (len(a) + len(b)), and 1.0 for two empty strings
RatioAbove(a, b) ==
    IF Len(a) + Len(b) = 0 THEN 10 > ThresholdTenths
    ELSE 20 * MatchedChars(a, b) > ThresholdTenths * (Len(a) + Len(b))

\* key.split("|", 1)[1], for a key that holds a "|"
AfterBar(key) == SubSeq(key, Len(FirstField(key, "|")) + 2, Len(key))

\* LocalMusicScanner._are_similar_tracks
_are_similar_tracks(key1, key2) ==
    IF Contains(key1, "|") /\ Contains(key2, "|")
    THEN /\ RatioAbove(FirstField(key1, "|"), FirstField(key2, "|"))
         /\ RatioAbove(AfterBar(key1), AfterBar(key2))
    ELSE RatioAbove(key1, key2)

\* ---------------------------------------------------- SpotifySlskdDownloader

\* SpotifySlskdDownloader.create_search_query
create_search_query(track) == track.artist \o " " \o SubSpaceFeat(track.name)

\* Path(p).name for POSIX paths without a trailing slash
RECURSIVE Basename(_)
Basename(path) ==
    IF Contains(path, "/")
    THEN Basename(SubSeq(path, FirstPos(path, {"/"}) + 1, Len(path)))
    ELSE path

\* wait_for_search_results: timeout (line 677) and sleep (line 688), seconds
SearchTimeout == 15

SearchInterval == 1

\* monitor_download_completion: timeout (line 701) and sleep (line 762), seconds
MonitorTimeout == 300

MonitorInterval == 5

\* line 792 without the two lower(): the texts are compared as they are
RECURSIVE FindExisting_CaseSensitive(_, _)
FindExisting_CaseSensitive(existing_searches, query) ==
    IF existing_searches = <<>> THEN None
    ELSE IF Head(existing_searches).searchText = query
    THEN Some(Head(existing_searches))
    ELSE FindExisting_CaseSensitive(Tail(existing_searches), query)

\* lines 791-795: the first queued search whose text equals the query, ignoring case
RECURSIVE FindExisting(_, _)
FindExisting(existing_searches, query) ==
    IF existing_searches = <<>> THEN None
    ELSE IF lower(Head(existing_searches).searchText) = lower(query)
    THEN Some(Head(existing_searches))
    ELSE FindExisting(Tail(existing_searches), query)

\* lines 711-766: one pass of the monitoring loop.  matched: a record matches;
\* exact: expected_path exists; globbed: the glob of the incomplete directory
\* yields an existing file; proc: what process_downloaded_file does ("path",
\* "none" or "raise").  The pass returns True or False, sleeps, or raises into
\* the loop's handler, which sleeps too.
MonitorPass(matched, exact, globbed, proc) ==
    IF matched
    THEN IF exact
         THEN CASE proc = "path"  -> "return True"
                [] proc = "none"  -> "return False"
                [] proc = "raise" -> "raise"
         ELSE "return False"
    ELSE IF globbed
         THEN CASE proc = "path"  -> "return True"
                [] proc = "none"  -> "sleep"
                [] proc = "raise" -> "raise"
         ELSE "sleep"

\* lines 768-769 returning True
MonitorTimeoutResult_True == TRUE

\* lines 768-769: the monitoring loop ran out of time
MonitorTimeoutResult == FALSE

\* lines 851-853 with the exception re-raised
OnException_Propagate == "propagate"

\* lines 851-853: download_track's handler logs and returns False
OnException == "return False"

\* lines 899-904 with every True result taken for a track already present
Counted_TrueIsSkipped(res, exists) == IF res THEN "skipped" ELSE "failed"

\* lines 899-904 without the second existence check
Counted_NoRecheck(res, exists) == IF res THEN "successful" ELSE "failed"

\* lines 899-904: which counter run increments
Counted(res, exists) ==
    IF res /\ exists THEN "skipped" ELSE IF res THEN "successful" ELSE "failed"

\* lines 824-826, 844 enqueueing the first offered file
EnqueueArgs_FirstOffered(match, responses) == Candidates(responses)[1]

\* lines 824-826, 844: what is handed to slskd.transfers.enqueue
EnqueueArgs(match, responses) == [username |-> match.username, file |-> match.file]

\* ------------------------------------------------------------------ inputs

\* the longest wanted list (run's track_limit)
MaxTracks == 2

TrackLetItBe ==
    [name |-> "Let It Be", artist |-> "The Beatles", album |-> "Let It Be",
     duration_ms |-> 240000]

TrackHey ==
    [name |-> "Hey (feat. X)", artist |-> "A, B", album |-> "Hey", duration_ms |-> 200000]

WantedTracks == {TrackLetItBe, TrackHey}

\* the user's saved tracks, newest first: the two tracks in turn, either first
Saved(first, n) ==
    [k \in 1..n |-> IF k % 2 = 1 THEN first ELSE CHOOSE t \in WantedTracks : t # first]

\* what get_liked_tracks may return for a limit of at most n
WantedLists(n) == { Saved(first, m) : first \in WantedTracks, m \in 0..n }

\* the music root: empty, or one tagged file with an unrelated name
TaggedBeatles ==
    [stem |-> "01 track", suffix |-> ".flac", artist |-> "The Beatles", title |-> "Let It Be"]

LibraryChoices == {<<>>, <<TaggedBeatles>>}

\* what slskd.searches.get_all may hold when a query is about to be sent
PendingChoices(query) ==
    { <<>>,
      <<[id |-> 1, searchText |-> query \o " live"]>>,
      <<[id |-> 1, searchText |-> query \o " live"], [id |-> 2, searchText |-> lower(query)]>> }

\* files peers may offer
FileBeatlesFlac == [filename |-> "music/The Beatles - Let It Be.flac", size |-> 42000000]

FileBeatlesMp3 == [filename |-> "The Beatles - Let It Be 320kbps.mp3", size |-> 9600000]

FileLowRate == [filename |-> "Let It Be 128k.mp3", size |-> 3800000]

FileHeyMp3 == [filename |-> "a b hey 320kbps.mp3", size |-> 8000000]

\* a name whose bitrate token is all zeros
FileZeroRate == [filename |-> "Let It Be 000kbps.mp3", size |-> 3800000]

\* a name that holds the first artist of TrackHey and not the second
FileSoloHey == [filename |-> "A - Hey 320kbps.mp3", size |-> 8000000]

FileApe == [filename |-> "x.ape", size |-> 10]

\* a lossless name with no bitrate token and nothing of either track in it
FileBareFlac == [filename |-> "q.FLAC", size |-> 10]

FileOgg == [filename |-> "notes.ogg", size |-> 10]

FileText == [filename |-> "notes.txt", size |-> 10]

\* what slskd.searches.search_responses may return
SearchResponses ==
    { <<>>,
      <<[username |-> "peer1", files |-> <<FileBeatlesFlac>>]>>,
      <<[username |-> "peer1", files |-> <<FileText>>],
        [username |-> "peer2", files |-> <<FileHeyMp3, FileLowRate>>]>> }

\* the most peers that answer a search handed to find_best_match on its own
MaxPeers == 2

PeerNames == <<"peer1", "peer2", "peer3", "peer4">>

\* what one peer may offer
OfferLists ==
    { <<>>, <<FileBeatlesFlac>>, <<FileBeatlesMp3>>, <<FileLowRate>>, <<FileApe>>,
      <<FileOgg>>, <<FileText, FileHeyMp3>>, <<FileLowRate, FileBeatlesMp3>>,
      <<FileZeroRate>>, <<FileSoloHey>>, <<FileBareFlac>> }

\* the responses of up to n peers
MatchResponses(n) ==
    UNION { { [k \in 1..m |-> [username |-> PeerNames[k], files |-> offers[k]]] :
                offers \in [1..m -> OfferLists] } : m \in 0..n }

\* the most files under the music root when the scan is followed file by file
MaxFiles == 2

TrackBeatles ==
    [name |-> "Let It Be", artist |-> "Beatles", album |-> "Let It Be",
     duration_ms |-> 240000]

TrackFeat ==
    [name |-> "Hey (feat. X)", artist |-> "A", album |-> "Hey", duration_ms |-> 200000]

TrackFt ==
    [name |-> "Hey (ft. X)", artist |-> "A", album |-> "Hey", duration_ms |-> 200000]

TrackDuo == [name |-> "Hey", artist |-> "A, B", album |-> "Hey", duration_ms |-> 200000]

TrackAmp == [name |-> "Hey", artist |-> "A & B", album |-> "Hey", duration_ms |-> 200000]

ScanTracks == {TrackLetItBe, TrackBeatles, TrackFeat, TrackFt, TrackDuo, TrackAmp}

\* files the music root may hold: tagged ones with unrelated names, untagged
\* ones named after the music, and one that is no audio file
NamedBeatles ==
    [stem |-> "The Beatles - Let It Be", suffix |-> ".mp3", artist |-> "", title |-> ""]

NamedTitle == [stem |-> "Let It Be", suffix |-> ".MP3", artist |-> "", title |-> ""]

TaggedHey == [stem |-> "02 track", suffix |-> ".flac", artist |-> "A", title |-> "Hey"]

Cover == [stem |-> "cover", suffix |-> ".jpg", artist |-> "", title |-> ""]

DiskFiles == {TaggedBeatles, NamedBeatles, NamedTitle, TaggedHey, Cover}

ScanLibraries(n) == UNION { [1..m -> DiskFiles] : m \in 0..n }

\* what slskd.transfers.get_all_downloads may return while a file is awaited
TransferChoices(username, filename) ==
    { <<[user |-> username, filename |-> filename, state |-> "InProgress"]>>,
      <<[user |-> "someone", filename |-> filename, state |-> "Completed"]>>,
      <<[user |-> username, filename |-> "other.flac", state |-> "Completed"],
        [user |-> username, filename |-> "downloads/" \o filename,
         state |-> "Completed"]>> }

\* what the incomplete directory may hold at a monitoring pass: nothing of
\* interest, the awaited file under its own name, or only a file whose name
\* contains it; and what processing a file found there may do
DirChoices ==
    {[dir |-> "empty", proc |-> "path"]}
    \cup [dir : {"exact", "similar"}, proc : {"path", "none", "raise"}]

\* ------------------------------------------------------------------ tables
\* Text functions of the inputs above, evaluated once and looked up by the
\* actions; an argument outside a table is computed directly.

KnownTracks == WantedTracks \cup ScanTracks

PatternTable == [t \in KnownTracks |-> check_patterns(t)]

\* LocalMusicScanner.track_exists
track_exists(t, index) ==
    AnyPatternIn(IF t \in KnownTracks THEN PatternTable[t] ELSE check_patterns(t), index)

NamesIn(responses) == { c.file.filename : c \in Range(Candidates(responses)) }

OfferedNames == UNION { NamesIn(r) : r \in SearchResponses }

KnownPaths == OfferedNames \cup {"other.flac"} \cup { "downloads/" \o n : n \in OfferedNames }

NameTable == [path \in KnownPaths |-> Basename(path)]

\* Path(path).name
PathName(path) == IF path \in KnownPaths THEN NameTable[path] ELSE Basename(path)

\* lines 715-721: some transfer record is for this peer and file and is
\* Completed
RecordMatches(transfers, username, filename) ==
    \E k \in DOMAIN transfers :
        /\ transfers[k].user = username
        /\ PathName(transfers[k].filename) = PathName(filename)
        /\ transfers[k].state = "Completed"

KnownFiles ==
    UNION { Range(offer) : offer \in OfferLists }
    \cup UNION { { c.file : c \in Range(Candidates(r)) } : r \in SearchResponses }

KnownProfiles == { QualityProfile(p) : p \in ProfileNames }

ScoreTable ==
    [f \in KnownFiles, t \in WantedTracks, prof \in KnownProfiles |-> score_file(f, t, prof)]

\* 50 * the sum a file reaches before line 587 weights it, -1 when one of the
\* early returns (lines 555-556, 565-566) is taken
RawWith(filename, file_size, metadata, t, prof) ==
    IF FormatAllowed(metadata, prof) /\ ~BitrateRejected(metadata, prof)
    THEN RawScore50(filename, file_size, metadata, t, prof)
    ELSE -1

RawLower(filename, file_size, t, prof) ==
    RawWith(filename, file_size, extract_metadata(filename), t, prof)

RawTable ==
    [f \in KnownFiles, t \in WantedTracks, prof \in KnownProfiles |->
        RawLower(lower(f.filename), f.size, t, prof)]

MetadataTable == [f \in KnownFiles |-> extract_metadata(lower(f.filename))]

\* line 603: self.score_file(file_data, track)
FileScore(file_data, t, prof) ==
    IF file_data \in KnownFiles /\ t \in WantedTracks /\ prof \in KnownProfiles
    THEN ScoreTable[file_data, t, prof]
    ELSE score_file(file_data, t, prof)

\* the keys the files above can put in the index
KnownKeys == UNION { KeysOfFile(f) : f \in DiskFiles }

SimilarTable == [key1 \in KnownKeys, key2 \in KnownKeys |-> _are_similar_tracks(key1, key2)]

\* line 485: self._are_similar_tracks(key1, key2)
Similar(key1, key2) ==
    IF key1 \in KnownKeys /\ key2 \in KnownKeys
    THEN SimilarTable[key1, key2]
    ELSE _are_similar_tracks(key1, key2)

\* ------------------------------------- LocalMusicScanner, duplicate report

\* list(self.scanned_tracks): the keys in any order a set may iterate in
RECURSIVE Orders(_)
Orders(keys) ==
    IF keys = {} THEN {<<>>}
    ELSE UNION { { <<key>> \o rest : rest \in Orders(keys \ {key}) } : key \in keys }

\* lines 484-488 with every later key appended
SimilarLater_Unfiltered(key1, later) == later

\* lines 484-488: the keys of track_keys[i + 1:] that are similar to key1
RECURSIVE SimilarLater(_, _)
SimilarLater(key1, later) ==
    IF later = <<>> THEN <<>>
    ELSE (IF Similar(key1, Head(later)) THEN <<Head(later)>> ELSE <<>>)
         \o SimilarLater(key1, Tail(later))

\* lines 486-488: key1 gets an entry once a later key is similar to it
WithEntry(found, key1, similar) ==
    IF similar = <<>> THEN found ELSE (key1 :> similar) @@ found

\* lines 483-488: the outer loop over track_keys
RECURSIVE DuplicatesLoop(_, _)
DuplicatesLoop(track_keys, found) ==
    IF track_keys = <<>> THEN found
    ELSE DuplicatesLoop(Tail(track_keys),
                        WithEntry(found, Head(track_keys),
                                  SimilarLater(Head(track_keys), Tail(track_keys))))

\* LocalMusicScanner.find_potential_duplicates, for one iteration order
find_potential_duplicates(track_keys) == DuplicatesLoop(track_keys, <<>>)

\* ----------------------------------------------- QualityMatcher, selection

\* line 604 with >= : an equal score replaces the best so far as well
Better_LastWins(acc, cand, score) ==
    IF score >= acc.best_score
    THEN [best_score |-> score,
          best_match |-> Some([username |-> cand.username, file |-> cand.file,
                               score |-> score])]
    ELSE acc

\* lines 604-610: a strictly higher score replaces the best so far
Better(acc, cand, score) ==
    IF score > acc.best_score
    THEN [best_score |-> score,
          best_match |-> Some([username |-> cand.username, file |-> cand.file,
                               score |-> score])]
    ELSE acc

\* lines 602-610: one iteration of the inner loop
BestStep(acc, cand, track, prof) == Better(acc, cand, FileScore(cand.file, track, prof))

RECURSIVE BestLoop(_, _, _, _)
BestLoop(cands, acc, track, prof) ==
    IF cands = <<>> THEN acc
    ELSE BestLoop(Tail(cands), BestStep(acc, Head(cands), track, prof), track, prof)

\* lines 613-616 without the cutoff
Acceptable_NoCutoff(match) == match # None

\* lines 613-616: best_match and best_match["score"] >= 40
Acceptable(match) == match # None /\ match[1].score >= Pts(40)

\* lines 612-616: what find_best_match returns for the best of the loop
Returned(match) == IF Acceptable(match) THEN match ELSE None

\* QualityMatcher.find_best_match
find_best_match(responses, track, prof) ==
    Returned(BestLoop(Candidates(responses), [best_score |-> 0, best_match |-> None],
                      track, prof).best_match)

\* ------------------------------------------------------------ state machine

track == tracks[i]

\* the state after SpotifySlskdDownloader.__init__: the scanner is built
Init ==
    /\ profile \in ProfileNames
    /\ library \in LibraryChoices
    /\ scan_pos = Len(library)
    /\ scanned_tracks = ScanAll(library)
    /\ tracks = <<>>
    /\ i = 0
    /\ pc = "start"
    /\ search = None
    /\ elapsed = 0
    /\ search_results = <<>>
    /\ best_match = None
    /\ result = None
    /\ successful = 0 /\ failed = 0 /\ skipped = 0
    /\ enqueued = <<>>
    /\ calls = {}
    /\ seen = {}
    /\ raised = 0
    /\ duplicates = <<>>
    /\ queued = None

\* download_track returns value
Return(value) == result' = Some(value) /\ pc' = "Count"

\* a collaborator call raised while track i was handled
NoteRaise == raised' = IF raised = 0 THEN i ELSE raised

\* a call made directly in download_track's try block raises
Raise ==
    /\ NoteRaise
    /\ IF OnException = "return False"
       THEN Return(FALSE)
       ELSE pc' = "aborted" /\ UNCHANGED result

\* run, lines 864-891: slskd is probed, the wanted list is fetched
RunStartWith(lists) ==
    /\ pc = "start"
    /\ \/ \* application.state() raises: run reports it and returns
          /\ pc' = "finished"
          /\ UNCHANGED <<tracks, i, duplicates>>
       \/ \* line 875: the index is listed in the order of the set's iteration
          \E track_keys \in Orders(scanned_tracks) :
             /\ duplicates' = find_potential_duplicates(track_keys)
             /\ \/ \* get_liked_tracks raises: nothing in run catches it
                   /\ pc' = "aborted"
                   /\ UNCHANGED <<tracks, i>>
                \/ \E ts \in lists :
                      /\ tracks' = ts
                      /\ i' = 1
                      /\ pc' = IF ts = <<>> THEN "finished" ELSE "CheckLocal"
    /\ UNCHANGED <<profile, library, scan_pos, scanned_tracks, search, elapsed,
                   search_results, best_match, result, successful, failed, skipped,
                   enqueued, calls, seen, raised, queued>>

RunStart == RunStartWith(WantedLists(MaxTracks))

\* download_track, lines 779-785
CheckLocal ==
    /\ pc = "CheckLocal"
    /\ IF track_exists(track, scanned_tracks)
       THEN Return(TRUE)
       ELSE pc' = "Searching" /\ UNCHANGED result
    /\ UNCHANGED <<profile, library, scan_pos, scanned_tracks, tracks, i, search,
                   elapsed, search_results, best_match, successful, failed, skipped,
                   enqueued, calls, seen, raised>>
    /\ UNCHANGED <<duplicates, queued>>

\* download_track, lines 787-809: reuse a queued search or start one
Searching ==
    /\ pc = "Searching"
    /\ LET query == create_search_query(track)
       IN  \/ \* searches.get_all raises
              /\ calls' = calls \cup {"get_all"}
              /\ Raise
              /\ UNCHANGED <<search, elapsed, queued>>
           \/ \E existing_searches \in PendingChoices(query) :
                LET found == FindExisting(existing_searches, query)
                IN  /\ queued' = Some(existing_searches)
                    /\ IF found # None
                       THEN /\ calls' = calls \cup {"get_all"}
                            /\ search' = found
                            /\ elapsed' = 0
                            /\ pc' = "AwaitingResults"
                            /\ UNCHANGED <<result, raised>>
                       ELSE \/ \* searches.search_text raises
                               /\ calls' = calls \cup {"get_all", "search_text"}
                               /\ Raise
                               /\ UNCHANGED <<search, elapsed>>
                            \/ \* it returns nothing usable: "Failed to initiate search"
                               /\ calls' = calls \cup {"get_all", "search_text"}
                               /\ Return(FALSE)
                               /\ UNCHANGED <<search, elapsed, raised>>
                            \/ /\ calls' = calls \cup {"get_all", "search_text"}
                               /\ search' = Some([id |-> 3, searchText |-> query])
                               /\ elapsed' = 0
                               /\ pc' = "AwaitingResults"
                               /\ UNCHANGED <<result, raised>>
    /\ UNCHANGED <<profile, library, scan_pos, scanned_tracks, tracks, i,
                   search_results, best_match, successful, failed, skipped,
                   enqueued, seen>>
    /\ UNCHANGED duplicates

\* lines 689-691 without the inner handler: the error reaches line 851
OnPollError_Propagate == "return False"

\* lines 689-691: an error of a pass is logged, the loop sleeps and goes on
OnPollError == "sleep"

\* a call of one pass of the polling loop raises
PollRaise ==
    /\ NoteRaise
    /\ IF OnPollError = "sleep"
       THEN /\ elapsed' = elapsed + SearchInterval
            /\ UNCHANGED <<pc, search_results, result, queued>>
       ELSE Return(FALSE) /\ UNCHANGED <<elapsed, search_results, queued>>

\* wait_for_search_results, lines 681-691: one pass of the polling loop
PollSearch ==
    /\ pc = "AwaitingResults"
    /\ elapsed < SearchTimeout
    /\ \/ \* searches.state raises
          /\ calls' = calls \cup {"state"}
          /\ PollRaise
       \/ \* the search is not complete yet
          /\ calls' = calls \cup {"state"}
          /\ elapsed' = elapsed + SearchInterval
          /\ UNCHANGED <<pc, search_results, result, raised, queued>>
       \/ \* complete, and search_responses raises inside the same try
          /\ calls' = calls \cup {"state", "search_responses"}
          /\ PollRaise
       \/ \* complete: the responses are returned
          \E responses \in SearchResponses :
             /\ calls' = calls \cup {"state", "search_responses"}
             /\ search_results' = responses
             /\ pc' = "Matching"
             /\ queued' = None
             /\ UNCHANGED <<elapsed, result, raised>>
    /\ UNCHANGED <<profile, library, scan_pos, scanned_tracks, tracks, i, search,
                   best_match, successful, failed, skipped, enqueued, seen>>
    /\ UNCHANGED duplicates

\* wait_for_search_results, lines 693-698: the timeout has passed
SearchTimedOut ==
    /\ pc = "AwaitingResults"
    /\ elapsed >= SearchTimeout
    /\ calls' = calls \cup {"search_responses"}
    /\ \/ \* search_responses raises: [] is returned
          /\ search_results' = <<>>
          /\ NoteRaise
       \/ \E responses \in SearchResponses :
             /\ search_results' = responses
             /\ UNCHANGED raised
    /\ pc' = "Matching"
    /\ queued' = None
    /\ UNCHANGED <<profile, library, scan_pos, scanned_tracks, tracks, i, search,
                   elapsed, best_match, result, successful, failed, skipped,
                   enqueued, seen>>
    /\ UNCHANGED duplicates

\* download_track, lines 818-822: the matcher's answer decides
Matched(found) ==
    /\ best_match' = found
    /\ IF found = None
       THEN Return(FALSE)
       ELSE pc' = "Fetching" /\ UNCHANGED result

\* download_track, lines 811-822
Matching ==
    /\ pc = "Matching"
    /\ IF search_results = <<>>
       THEN Return(FALSE) /\ UNCHANGED best_match
       ELSE Matched(find_best_match(search_results, track, QualityProfile(profile)))
    /\ UNCHANGED <<profile, library, scan_pos, scanned_tracks, tracks, i, search,
                   elapsed, search_results, successful, failed, skipped, enqueued,
                   calls, seen, raised>>
    /\ UNCHANGED <<duplicates, queued>>

\* download_track, lines 824-849: the winner is enqueued, monitoring begins
Fetching ==
    /\ pc = "Fetching"
    /\ calls' = calls \cup {"enqueue"}
    /\ \/ \* transfers.enqueue raises
          /\ Raise
          /\ UNCHANGED <<enqueued, elapsed, seen>>
       \/ \* it returns whether slskd accepted; line 844 drops what it returns
          \E accepted \in BOOLEAN :
              /\ enqueued' = Append(enqueued, EnqueueArgs(best_match[1], search_results))
              /\ seen' = IF accepted THEN seen ELSE seen \cup {"refused"}
              /\ elapsed' = 0
              /\ pc' = "Verifying"
              /\ UNCHANGED <<result, raised>>
    /\ UNCHANGED <<profile, library, scan_pos, scanned_tracks, tracks, i, search,
                   search_results, best_match, successful, failed, skipped>>
    /\ UNCHANGED <<duplicates, queued>>

\* lines 257-272 with the organized file put into the index
IndexAfter_Organized(index, t) == index \cup {PatternTable[t][1]}

\* process_downloaded_file, lines 257-272: the file is tagged and moved under
\* the music root; scanner.scanned_tracks is not written
IndexAfter(index, t) == index

\* monitor_download_completion, lines 710-766: one pass of the monitoring loop
PollTransfers ==
    /\ pc = "Verifying"
    /\ elapsed < MonitorTimeout
    /\ calls' = calls \cup {"get_all_downloads"}
    /\ \/ \* transfers.get_all_downloads raises: logged, sleep, go on
          /\ NoteRaise
          /\ elapsed' = elapsed + MonitorInterval
          /\ UNCHANGED <<pc, result, seen, scanned_tracks>>
       \/ \E transfers \in TransferChoices(best_match[1].username,
                                           best_match[1].file.filename) :
            LET matched == RecordMatches(transfers, best_match[1].username,
                                         best_match[1].file.filename)
            IN  \E d \in DirChoices :
                  LET pass == MonitorPass(matched, d.dir = "exact", d.dir # "empty",
                                          d.proc)
                  IN  /\ seen' = seen
                                 \cup (IF matched THEN {"record"} ELSE {})
                                 \cup (IF ~matched /\ pass = "return True"
                                       THEN {"file"} ELSE {})
                      /\ scanned_tracks' = IF pass = "return True"
                                           THEN IndexAfter(scanned_tracks, track)
                                           ELSE scanned_tracks
                      /\ IF pass = "raise" THEN NoteRaise ELSE UNCHANGED raised
                      /\ CASE pass = "return True"  -> Return(TRUE) /\ UNCHANGED elapsed
                           [] pass = "return False" -> Return(FALSE) /\ UNCHANGED elapsed
                           [] OTHER -> /\ elapsed' = elapsed + MonitorInterval
                                       /\ UNCHANGED <<pc, result>>
    /\ UNCHANGED <<profile, library, scan_pos, tracks, i, search,
                   search_results, best_match, successful, failed, skipped, enqueued>>
    /\ UNCHANGED <<duplicates, queued>>

\* monitor_download_completion, lines 768-769
MonitorTimedOut ==
    /\ pc = "Verifying"
    /\ elapsed >= MonitorTimeout
    /\ Return(MonitorTimeoutResult)
    /\ UNCHANGED <<profile, library, scan_pos, scanned_tracks, tracks, i, search,
                   elapsed, search_results, best_match, successful, failed, skipped,
                   enqueued, calls, seen, raised>>
    /\ UNCHANGED <<duplicates, queued>>

\* run, lines 896-908: the result is counted and the loop moves on
Count ==
    /\ pc = "Count"
    /\ LET c == Counted(result[1], track_exists(track, scanned_tracks))
       IN  /\ skipped'    = IF c = "skipped" THEN skipped + 1 ELSE skipped
           /\ successful' = IF c = "successful" THEN successful + 1 ELSE successful
           /\ failed'     = IF c = "failed" THEN failed + 1 ELSE failed
    /\ i' = i + 1
    /\ pc' = IF i < Len(tracks) THEN "CheckLocal" ELSE "finished"
    /\ search' = None
    /\ elapsed' = 0
    /\ search_results' = <<>>
    /\ best_match' = None
    /\ result' = None
    /\ enqueued' = <<>>
    /\ calls' = {}
    /\ seen' = {}
    /\ queued' = None
    /\ UNCHANGED <<profile, library, scan_pos, scanned_tracks, tracks, raised>>
    /\ UNCHANGED duplicates

Next ==
    \/ RunStart
    \/ CheckLocal
    \/ Searching
    \/ PollSearch
    \/ SearchTimedOut
    \/ Matching
    \/ Fetching
    \/ PollTransfers
    \/ MonitorTimedOut
    \/ Count

Spec == Init /\ [][Next]_vars

\* a run under the High profile; the profile decides only which offers
\* Matching accepts, and under High it accepts some and turns down others
LiveInit == Init /\ profile = "HIGH"

\* run is one sequential process: while a step is possible it is taken, given
\* that time advances and every collaborator call returns or raises
LiveSpec == LiveInit /\ [][Next]_vars /\ WF_vars(Next)

\* --------------------------------------------- find_best_match on its own
\* download_track entered at line 818 with the responses of up to MaxPeers peers

MatchInit ==
    /\ profile \in ProfileNames
    /\ library = <<>>
    /\ scan_pos = 0
    /\ scanned_tracks = {}
    /\ tracks \in { <<t>> : t \in WantedTracks }
    /\ i = 1
    /\ pc = "Matching"
    /\ search = Some([id |-> 3, searchText |-> create_search_query(tracks[1])])
    /\ elapsed = 0
    /\ search_results \in MatchResponses(MaxPeers)
    /\ best_match = None
    /\ result = None
    /\ successful = 0 /\ failed = 0 /\ skipped = 0
    /\ enqueued = <<>>
    /\ calls = {"get_all", "search_text", "state", "search_responses"}
    /\ seen = {}
    /\ raised = 0
    /\ duplicates = <<>>
    /\ queued = None

MatchNext == Matching

MatchSpec == MatchInit /\ [][MatchNext]_vars

\* ------------------------------------------------- the scan, file by file
\* LocalMusicScanner.__init__ followed one file at a time, then one track of
\* the wanted list looked up in the index

ScanInit ==
    /\ profile = "ANY"
    /\ library \in ScanLibraries(MaxFiles)
    /\ scan_pos = 0
    /\ scanned_tracks = {}
    /\ tracks = <<>>
    /\ i = 0
    /\ pc = "scan"
    /\ search = None
    /\ elapsed = 0
    /\ search_results = <<>>
    /\ best_match = None
    /\ result = None
    /\ successful = 0 /\ failed = 0 /\ skipped = 0
    /\ enqueued = <<>>
    /\ calls = {}
    /\ seen = {}
    /\ raised = 0
    /\ duplicates = <<>>
    /\ queued = None

\* _scan_directories, lines 415-435: the next path of rglob("*")
ScanFile ==
    /\ pc = "scan"
    /\ scan_pos < Len(library)
    /\ scan_pos' = scan_pos + 1
    /\ scanned_tracks' = scanned_tracks \cup KeysOfFile(library[scan_pos + 1])
    /\ UNCHANGED <<profile, library, tracks, i, pc, search, elapsed, search_results,
                   best_match, result, successful, failed, skipped, enqueued, calls,
                   seen, raised>>
    /\ UNCHANGED <<duplicates, queued>>

\* _scan_directories returns (lines 404-406 or 437-438): construction is over
ScanDone ==
    /\ pc = "scan"
    /\ scan_pos = Len(library)
    /\ pc' = "start"
    /\ UNCHANGED <<profile, library, scan_pos, scanned_tracks, tracks, i, search,
                   elapsed, search_results, best_match, result, successful, failed,
                   skipped, enqueued, calls, seen, raised>>
    /\ UNCHANGED <<duplicates, queued>>

ScanRunStart == RunStartWith({ <<t>> : t \in ScanTracks })

ScanNext ==
    \/ ScanFile
    \/ ScanDone
    \/ ScanRunStart
    \/ CheckLocal

ScanSpec == ScanInit /\ [][ScanNext]_vars

\* -------------------------------------------------------------- properties

\* download_track returned True for the current track after monitoring it
DoneFromVerifying ==
    pc = "Count" /\ result = Some(TRUE) /\ "get_all_downloads" \in calls

C2_ExistingIsSkipped ==
    [][(i \in 1..Len(tracks) /\ track_exists(track, scanned_tracks)) =>
         /\ pc \in {"CheckLocal", "Count"}
         /\ calls = {} /\ enqueued = <<>> /\ seen = {}
         /\ (pc = "CheckLocal" => pc' = "Count" /\ result' = Some(TRUE))
         /\ (pc = "Count" =>
               /\ result = Some(TRUE)
               /\ skipped' = skipped + 1
               /\ successful' = successful
               /\ failed' = failed)]_vars

C2_Witness == pc = "finished" /\ skipped >= 1 /\ successful + failed >= 1

\* C3: once a collaborator call has raised while a track was handled, the run
\* is never aborted: the track gets a result, run can always take its next
\* step until it has finished, and it finishes only with every track of the
\* wanted list counted
C3_ErrorsStayInTrack ==
    raised # 0 =>
        /\ pc # "aborted"
        /\ pc = "Count" => result \in {Some(TRUE), Some(FALSE)}
        /\ pc # "finished" => ENABLED Next
        /\ pc = "finished" =>
              /\ i = Len(tracks) + 1
              /\ successful + failed + skipped = Len(tracks)

C3_Witness == pc = "finished" /\ raised \in 1..(Len(tracks) - 1) /\ failed >= 1

\* the scores find_best_match sees for the current responses
OfferedScores ==
    { FileScore(c.file, track, QualityProfile(profile)) :
        c \in Range(Candidates(search_results)) }

\* C4: find_best_match never returns a match scored below 40, and returns
\* none when no peer offers a file or no peer answered
C4_NeverBelowCutoff ==
    /\ best_match # None => best_match[1].score >= Pts(40)
    /\ pc # "Matching" =>
          best_match = find_best_match(search_results, track, QualityProfile(profile))
    /\ (\A k \in DOMAIN search_results : search_results[k].files = <<>>) =>
          find_best_match(search_results, track, QualityProfile(profile)) = None

C4_Witness ==
    /\ pc = "Count"
    /\ best_match = None
    /\ \E score \in OfferedScores : score > 0 /\ score < Pts(40)

\* Matching has been reached for the current track
MatchingReached == pc \in {"Fetching", "Verifying"} \/ (pc = "Count" /\ "search_responses" \in calls)

\* C5: enqueue is called only with a match in hand, and with exactly the
\* user and file find_best_match returned; with no responses or no match the
\* track's result is False and enqueue is never called
C5_EnqueueOnlyTheMatch ==
    /\ ("enqueue" \in calls \/ enqueued # <<>> \/ pc \in {"Fetching", "Verifying"}) =>
          /\ search_results # <<>>
          /\ best_match # None
          /\ best_match = find_best_match(search_results, track, QualityProfile(profile))
    /\ enqueued # <<>> =>
          enqueued = <<[username |-> best_match[1].username, file |-> best_match[1].file]>>
    /\ (MatchingReached /\ (search_results = <<>> \/ best_match = None)) =>
          /\ pc = "Count"
          /\ result = Some(FALSE)
          /\ "enqueue" \notin calls
          /\ enqueued = <<>>

C5_Witness ==
    /\ pc = "Verifying"
    /\ enqueued # <<>>
    /\ enqueued[1] # Candidates(search_results)[1]

\* the files offered in the current responses
OfferedFiles == { c.file : c \in Range(Candidates(search_results)) }

\* C6, as claimed: when the responses have been scored, a file whose format
\* the profile allows has got the format score 30, plus 10 exactly when its
\* format is one of the first two entries of the profile's formats
C6_BonusForFirstTwo ==
    pc # "Matching" => \A f \in OfferedFiles :
        LET metadata == MetadataTable[f]
            prof     == QualityProfile(profile)
        IN  FormatAllowed(metadata, prof) =>
                FormatPoints(metadata, prof)
                    = 30 + (IF metadata.format \in Range(SubSeq(prof.formats, 1, 2))
                            THEN 10 ELSE 0)

\* find_best_match accepts file f when it is the only file offered
AcceptedAlone(f, t, prof) ==
    find_best_match(<<[username |-> "peer1", files |-> <<f>>]>>, t, prof) # None

\* f passes the format and bitrate stages under both profiles and reaches the
\* same sum before weighting
SameRaw(f, t, p, q) ==
    /\ RawTable[f, t, QualityProfile(p)] >= 0
    /\ RawTable[f, t, QualityProfile(p)] = RawTable[f, t, QualityProfile(q)]

\* C7, as claimed: when the responses have been scored, a file accepted under
\* the profile with the higher score_weight is accepted, at the same raw
\* score, under one with a lower score_weight
C7_LowerWeightAcceptsMore ==
    pc # "Matching" => \A f \in OfferedFiles : \A q \in ProfileNames :
        (/\ QualityProfile(profile).score_weight > QualityProfile(q).score_weight
         /\ SameRaw(f, track, profile, q)
         /\ AcceptedAlone(f, track, QualityProfile(profile)))
        => AcceptedAlone(f, track, QualityProfile(q))

\* C7, as the code has it: when the responses have been scored, a file
\* accepted under the profile with the lower score_weight is accepted, at the
\* same raw score, under one with a higher score_weight; the weight multiplies
\* the score the cutoff of 40 is applied to
C7_HigherWeightAcceptsMore ==
    pc # "Matching" => \A f \in OfferedFiles : \A q \in ProfileNames :
        (/\ QualityProfile(profile).score_weight < QualityProfile(q).score_weight
         /\ SameRaw(f, track, profile, q)
         /\ AcceptedAlone(f, track, QualityProfile(profile)))
        => AcceptedAlone(f, track, QualityProfile(q))

C7_Witness ==
    /\ pc = "Fetching"
    /\ profile = "ANY"
    /\ SameRaw(best_match[1].file, track, "ANY", "HIGH")
    /\ AcceptedAlone(best_match[1].file, track, QualityProfile("HIGH"))

\* download_track has looked the current track up in the index
LookedUp == pc \in {"Count", "Searching"}

\* the scan has indexed an audio file whose metadata is The Beatles, Let It Be
BeatlesIndexed ==
    \E k \in 1..scan_pos :
        /\ lower(library[k].suffix) \in AUDIO_EXTENSIONS
        /\ _extract_metadata_from_file(library[k])
             = [artist |-> _normalize_string("The Beatles"),
                title |-> _normalize_string("Let It Be")]

\* the keys track_exists tries for Beatles, Let It Be
ArticleFreeKeys ==
    {"beatles|let it be", "beatles let it be", "let it be beatles", "let it be"}

\* C8, as claimed: with such a file indexed, the track exists both under the
\* artist The Beatles and under the artist Beatles, whatever the file is named
C8_ExistsWithoutArticle ==
    (LookedUp /\ BeatlesIndexed /\ track \in {TrackLetItBe, TrackBeatles})
    => (pc = "Count" /\ result = Some(TRUE))

\* C8, as the code has it: with such a file indexed, the track exists under
\* the artist The Beatles; under the artist Beatles it exists exactly when
\* the index holds a key without the article, which only another file or a
\* file name can have put there
C8_ExistsWithArticle ==
    (LookedUp /\ BeatlesIndexed) =>
        /\ track = TrackLetItBe => (pc = "Count" /\ result = Some(TRUE))
        /\ track = TrackBeatles =>
              ((pc = "Count" /\ result = Some(TRUE))
                 <=> scanned_tracks \cap ArticleFreeKeys # {})

C8_Witness == pc = "Count" /\ BeatlesIndexed /\ track = TrackBeatles

\* C9, as claimed: a track whose title carries a (feat. X) or (ft. X)
\* parenthetical exists when the index holds the key of its artist and its
\* title without the parenthetical
C9_FeatureStripped ==
    (/\ LookedUp
     /\ SubFeat(track.name) # track.name
     /\ (_normalize_string(track.artist) \o "|" \o _normalize_string(SubFeat(track.name)))
           \in scanned_tracks)
    => (pc = "Count" /\ result = Some(TRUE))

\* C10, as claimed: a track whose artist lists several artists separated by a
\* comma or an ampersand exists when the index holds the key of its first
\* artist and its title
C10_PrimaryArtist ==
    (/\ LookedUp
     /\ (Contains(track.artist, ",") \/ Contains(track.artist, "&"))
     /\ (_normalize_string(FirstField(FirstField(track.artist, ","), "&"))
            \o "|" \o _normalize_string(track.name)) \in scanned_tracks)
    => (pc = "Count" /\ result = Some(TRUE))

\* run has called find_potential_duplicates
DuplicatesReported == pc \notin {"scan", "start"} /\ ~(pc = "finished" /\ i = 0)

\* key2 is listed under key1 in the report
Listed(key1, key2) ==
    key1 \in DOMAIN duplicates /\ key2 \in Range(duplicates[key1])

\* C11, as claimed: in the report of find_potential_duplicates every two
\* indexed keys judged similar are listed under each other
C11_ListedBothWays ==
    DuplicatesReported =>
        \A key1 \in scanned_tracks : \A key2 \in scanned_tracks \ {key1} :
            Similar(key1, key2) => (Listed(key1, key2) /\ Listed(key2, key1))

\* C11, as the code has it: every two indexed keys judged similar are listed
\* once, one of them under the other and never both ways; only keys judged
\* similar are listed, no key is listed under itself or twice under a key,
\* and a key of the report has at least one key listed under it
C11_ListedOnce ==
    DuplicatesReported =>
        /\ DOMAIN duplicates \subseteq scanned_tracks
        /\ \A key1 \in DOMAIN duplicates :
              /\ duplicates[key1] # <<>>
              /\ key1 \notin Range(duplicates[key1])
              /\ Cardinality(Range(duplicates[key1])) = Len(duplicates[key1])
        /\ \A key1 \in scanned_tracks : \A key2 \in scanned_tracks \ {key1} :
              /\ Listed(key1, key2) => (Similar(key1, key2) /\ ~Listed(key2, key1))
              /\ (Similar(key1, key2) /\ Similar(key2, key1))
                    => (Listed(key1, key2) \/ Listed(key2, key1))

C11_Witness ==
    /\ DuplicatesReported
    /\ \E key1 \in scanned_tracks : \E key2 \in scanned_tracks :
          Listed(key1, key2) /\ ~Listed(key2, key1)

\* lines 523-527 for the files peers may offer
TokenTable == [f \in KnownFiles |-> bitrate_token(lower(f.filename))]

\* C12, as claimed: when the responses have been scored, a file whose name
\* holds a bitrate token (all zeros included) with a value below the
\* profile's min_bitrate has scored exactly 0
C12_KnownLowRateScoresZero ==
    pc # "Matching" => \A f \in OfferedFiles :
        (TokenTable[f] # None /\ TokenTable[f][1] < QualityProfile(profile).min_bitrate)
            => FileScore(f, track, QualityProfile(profile)) = 0

\* the first artist of a comma/ampersand-separated artist string, cleaned as
\* line 570 cleans
PrimaryClean(t) == Clean(Strip(FirstField(FirstField(t.artist, ","), "&")))

\* C13, as claimed: when the responses have been scored, a file whose name
\* holds the track's primary artist has got the +10 of the artist match, also
\* when the track is by several artists
C13_PrimaryArtistBonus ==
    pc # "Matching" => \A f \in OfferedFiles :
        Contains(lower(f.filename), PrimaryClean(track))
            => ArtistPoints(lower(f.filename), track) = 10

\* transfers.enqueue was called for the current track and raised
EnqueueRaised == "enqueue" \in calls /\ enqueued = <<>>

\* C14, as claimed: when transfers.enqueue raises or returns that the
\* transfer was not accepted, download_track returns False without a pass of
\* the monitoring loop
C14_RefusedEnqueueFails ==
    (EnqueueRaised \/ "refused" \in seen) =>
        /\ pc = "Count"
        /\ result = Some(FALSE)
        /\ "get_all_downloads" \notin calls

\* C15: a step taken while the search is awaited either stays there, one
\* polling interval later and before the timeout, or hands responses to
\* Matching; it never returns from download_track.  A pass that raised goes
\* on polling, and the step taken once the timeout has passed fetches the
\* responses and hands them to Matching.  What Matching does with responses
\* does not depend on how long the search was awaited
C15_PollingNeverFails ==
    [][/\ pc = "AwaitingResults" =>
            /\ pc' \in {"AwaitingResults", "Matching"}
            /\ result' = None
            /\ pc' = "AwaitingResults" =>
                  /\ elapsed < SearchTimeout
                  /\ elapsed' = elapsed + SearchInterval
                  /\ search_results' = search_results
            /\ raised' # raised /\ elapsed < SearchTimeout => pc' = "AwaitingResults"
            /\ elapsed >= SearchTimeout =>
                  /\ pc' = "Matching"
                  /\ "search_responses" \in calls'
                  /\ search_results' \in SearchResponses
       /\ pc = "Matching" =>
            IF search_results = <<>>
            THEN pc' = "Count" /\ result' = Some(FALSE)
            ELSE best_match' = find_best_match(search_results, track, QualityProfile(profile))
      ]_vars

\* a match was found in responses fetched after the timeout, in a search
\* during which a pass had raised
C15_Witness ==
    /\ pc = "Fetching"
    /\ elapsed >= SearchTimeout
    /\ raised = i
    /\ best_match # None

\* the detected format of f is not one of the profile's formats
FormatAbsent(f) == MetadataTable[f].format \notin Range(QualityProfile(profile).formats)

\* C16: when the responses have been scored, every file whose detected format
\* is not one of the profile's formats (none detected included) has scored
\* exactly 0, and the match returned, if any, is no such file
C16_AbsentFormatScoresZero ==
    pc # "Matching" =>
        /\ \A f \in OfferedFiles :
              FormatAbsent(f) => FileScore(f, track, QualityProfile(profile)) = 0
        /\ best_match # None => ~FormatAbsent(best_match[1].file)

\* under Lossless an mp3 with title, artist, album and bitrate in its name,
\* and a file of no audio format, were offered and nothing was returned
C16_Witness ==
    /\ pc = "Count"
    /\ profile = "LOSSLESS"
    /\ track = TrackLetItBe
    /\ {FileBeatlesMp3, FileText} \subseteq OfferedFiles
    /\ FormatAbsent(FileBeatlesMp3) /\ FormatAbsent(FileText)
    /\ best_match = None

\* the score of the k-th candidate of the current responses
ScoreAt(k) == FileScore(Candidates(search_results)[k].file, track, QualityProfile(profile))

\* the positions of the candidates of maximum score
TopPositions ==
    { k \in DOMAIN Candidates(search_results) :
        \A j \in DOMAIN Candidates(search_results) : ScoreAt(j) <= ScoreAt(k) }

\* the first candidate of maximum score
FirstTop == Candidates(search_results)[CHOOSE k \in TopPositions : \A j \in TopPositions : k <= j]

\* C20: when the responses have been scored, the match returned is a
\* candidate of maximum score over all peers and files, and of several with
\* that score the first in the order peers answered and listed their files;
\* a match is returned exactly when that maximum reaches the cutoff of 40
C20_FirstOfTheBest ==
    pc # "Matching" =>
        IF TopPositions # {} /\ (\E k \in TopPositions : ScoreAt(k) >= Pts(40))
        THEN /\ best_match # None
             /\ best_match[1].username = FirstTop.username
             /\ best_match[1].file = FirstTop.file
             /\ \A k \in TopPositions : best_match[1].score = ScoreAt(k)
        ELSE best_match = None

\* two peers offered the file that scores highest, and the first peer's was
\* returned
C20_Witness ==
    /\ pc = "Fetching"
    /\ Cardinality(TopPositions) >= 2
    /\ \E k \in TopPositions :
          /\ Candidates(search_results)[k].username # best_match[1].username
          /\ Candidates(search_results)[k].file = best_match[1].file
    /\ \E j \in DOMAIN Candidates(search_results) : j \notin TopPositions /\ ScoreAt(j) > 0

\* the queued searches whose text is the current track's query, ignoring case
QueuedMatches ==
    { k \in DOMAIN queued[1] :
        lower(queued[1][k].searchText) = lower(create_search_query(track)) }

\* C17: once searches.get_all has returned for a track, search_text has been
\* called exactly when no queued search has the track's query as its text,
\* ignoring case; while the results are awaited the session polled is such a
\* queued search when there is one and no queued search otherwise; and
\* download_track does not come back to the step that submits
C17_SubmitOnlyWhenNotQueued ==
    /\ queued # None =>
          /\ "search_text" \in calls <=> QueuedMatches = {}
          /\ pc = "AwaitingResults" =>
                IF QueuedMatches # {}
                THEN \E k \in QueuedMatches : search = Some(queued[1][k])
                ELSE \A k \in DOMAIN queued[1] : search[1].id # queued[1][k].id
    /\ ("get_all" \in calls \/ "search_text" \in calls) => pc # "Searching"

\* a queued search whose text differs from the query in case only is polled and
\* nothing was submitted
C17_Witness ==
    /\ pc = "AwaitingResults"
    /\ queued # None
    /\ "search_text" \notin calls
    /\ \E k \in QueuedMatches :
          /\ search = Some(queued[1][k])
          /\ queued[1][k].searchText # create_search_query(track)
    /\ \E k \in DOMAIN queued[1] : k \notin QueuedMatches

\* the tracks run has counted so far
Handled == IF i = 0 THEN 0 ELSE i - 1

\* C18: in every state the three counters add up to the number of tracks
\* handled; no step lowers a counter; the step that counts a track raises
\* exactly one counter by one, successful for a track whose monitoring
\* returned True and failed for a track whose result is False; no other step
\* changes a counter
C18_OneCounterPerTrack ==
    [][/\ successful + failed + skipped = Handled
       /\ successful' + failed' + skipped' = Handled'
       /\ successful' >= successful /\ failed' >= failed /\ skipped' >= skipped
       /\ pc # "Count" => <<successful, failed, skipped>>' = <<successful, failed, skipped>>
       /\ pc = "Count" =>
             /\ Handled' = Handled + 1
             /\ DoneFromVerifying => successful' = successful + 1
             /\ result = Some(FALSE) => failed' = failed + 1
      ]_vars

\* a run of two tracks ended with one download and one failure
C18_Witness == pc = "finished" /\ i = 3 /\ successful = 1 /\ failed = 1 /\ skipped = 0

\* C19: every track download_track is entered for gets its result, True or
\* False; the loop index only ever moves to the next track; and a run that
\* has fetched a wanted list finishes with every track of it counted
C19_EveryTrackEnds ==
    /\ \A k \in 1..MaxTracks :
          (pc = "CheckLocal" /\ i = k)
              ~> (pc = "Count" /\ i = k /\ result \in {Some(TRUE), Some(FALSE)})
    /\ [][i' = i \/ i' = i + 1]_vars
    /\ (i >= 1) ~> (/\ pc = "finished"
                    /\ i = Len(tracks) + 1
                    /\ successful + failed + skipped = Len(tracks))

\* the last track ended by the timeout of its monitoring, no Completed record
\* having been listed
C19_Witness ==
    /\ pc = "Count"
    /\ result = Some(FALSE)
    /\ elapsed >= MonitorTimeout
    /\ "record" \notin seen
    /\ i = Len(tracks)

\* C21: once the scanner is built, no step of a run changes the index: the
\* lookup, the search, the enqueueing, the monitoring with its tagging and
\* moving of a downloaded file, and the counting leave every key in place and
\* add none, so track_exists answers the same for every track before and
\* after the step
C21_IndexNeverChanges ==
    [][/\ scanned_tracks' = scanned_tracks
       /\ \A t \in WantedTracks :
             track_exists(t, scanned_tracks') = track_exists(t, scanned_tracks)
      ]_vars

\* the first track of the list was downloaded and organized, and the lookup
\* about to be made for the next track still finds no key of the first
C21_Witness ==
    /\ pc = "CheckLocal"
    /\ i = 2
    /\ successful = 1
    /\ ~track_exists(tracks[1], scanned_tracks)
    /\ scanned_tracks = ScanAll(library)

\* the name of f ends in .flac, whatever the case, and holds no bitrate token
BareFlac(f) == HasSuffix(lower(f.filename), ".flac") /\ TokenTable[f] = None

\* C22: under the Lossless profile, when the responses have been scored, every
\* file whose name ends in .flac and holds no bitrate token has scored at
\* least 80, and when such a file was offered a match was returned
C22_BareFlacIsTaken ==
    (pc # "Matching" /\ profile = "LOSSLESS") =>
        /\ \A f \in OfferedFiles :
              BareFlac(f) => FileScore(f, track, QualityProfile(profile)) >= Pts(80)
        /\ (\E f \in OfferedFiles : BareFlac(f)) => best_match # None

\* a .flac whose name holds nothing of the track and whose size is far from
\* the expected one was the only file offered, scored exactly 80 and was
\* returned
C22_Witness ==
    /\ pc = "Fetching"
    /\ profile = "LOSSLESS"
    /\ OfferedFiles = {FileBareFlac}
    /\ BareFlac(FileBareFlac)
    /\ TextPoints(lower(FileBareFlac.filename), track) = 0
    /\ best_match[1].score = Pts(80)

====
